---- MODULE Spec2Model ----
(***************************************************************************)
(* The budget-allocation engine of streamlit_app.py:                       *)
(*   generate_auto_budget, apply_vacancy_to_budget, auto_fill_budget and   *)
(*   ensure_budget_schema.                                                 *)
(*                                                                         *)
(* Numbers.  The program computes in Python floats.  The model computes    *)
(* over exact rationals n/d (records [k |-> "num", n, d] in lowest terms), *)
(* so a statement that holds here holds of the program up to the           *)
(* representation error of binary floating point.  Every operation of the  *)
(* code is performed, in the code's order: products, quotients, sums and   *)
(* round(x, 2).                                                            *)
(*                                                                         *)
(* Cells.  A DataFrame cell is a number, NaN (a missing value) or a        *)
(* non-numeric string.  A frame is [cols, rows]: the set of columns it has *)
(* and its rows; the field of a column the frame lacks is Absent.          *)
(***************************************************************************)
EXTENDS Integers, Sequences, FiniteSets, TLC

VARIABLES
    stage,                \* "loaded": frame read from CSV; "ready": schema ensured
    df,                   \* the current budget frame (the last table operation's result)
    check_inputs,         \* the 4 deposits [c1, c2, c3, c4]
    auto_pct_map,         \* category -> percent, for auto_fill_budget
    check_amount,         \* one deposit, or None, for generate_auto_budget
    category_allocations, \* category -> percent, for generate_auto_budget
    vacancy_mode,         \* vacancy enabled
    vacancy_pct,          \* vacancy reduction percentage
    last,                 \* the function called last ("none" before any call)
    arg_before,           \* the frame passed to the last call, as it was before the call
    arg_after,            \* the same frame object after the call
    same_object,          \* the last call returned the object it was passed
    budget,               \* the mapping generate_auto_budget returned last
    raised,               \* the last call raised an exception
    steps,                \* number of calls made
    budget_csv,           \* the account's persisted budget file
    first_csv,            \* the budget file as it was before any save (history)
    dash                  \* the vacancy settings persisted in dashboard_data.csv

vars == <<stage, df, check_inputs, auto_pct_map, check_amount,
          category_allocations, vacancy_mode, vacancy_pct, last,
          arg_before, arg_after, same_object, budget, raised, steps,
          budget_csv, first_csv, dash>>

persisted == <<budget_csv, first_csv, dash>>

inputs == <<check_inputs, auto_pct_map, check_amount, category_allocations,
            vacancy_mode, vacancy_pct>>

----------------------------------------------------------------------------
(* Bounds of the model *)

MaxRows   == 2   \* rows of a budget frame
MaxWeight == 2   \* largest percentage weight of an allocation map
MaxSteps  == 2   \* calls in one behaviour

----------------------------------------------------------------------------
(* Exact rational arithmetic standing for the program's float arithmetic *)

Abs(i) == IF i < 0 THEN 0 - i ELSE i

RECURSIVE Gcd(_, _)
Gcd(a, b) == IF b = 0 THEN a ELSE Gcd(b, a % b)

\* n/d in lowest terms, d > 0
Rat(n, d) ==
    LET s == IF d < 0 THEN 0 - 1 ELSE 1
        g == Gcd(Abs(n), Abs(d))
    IN  [k |-> "num", n |-> (s * n) \div g, d |-> (s * d) \div g]

Int2(i)  == [k |-> "num", n |-> i, d |-> 1]
Zero     == Int2(0)
NaN      == [k |-> "nan", n |-> 0, d |-> 1]    \* a missing cell
Str      == [k |-> "str", n |-> 0, d |-> 1]    \* a non-numeric cell, e.g. "abc"
None     == [k |-> "none", n |-> 0, d |-> 1]   \* Python's None
Absent   == [k |-> "absent", n |-> 0, d |-> 1] \* no such column in the frame

IsNum(x) == x.k = "num"

Add(x, y) == Rat(x.n * y.d + y.n * x.d, x.d * y.d)
Mul(x, y) == Rat(x.n * y.n, x.d * y.d)
Div(x, y) == Rat(x.n * y.d, x.d * y.n)
Sub(x, y) == Add(x, Rat(0 - y.n, y.d))
Le(x, y)  == x.n * y.d <= y.n * x.d
Lt(x, y)  == x.n * y.d < y.n * x.d

\* Python's round(x, 2): to the nearest multiple of 0.01, ties to even
Round2(x) ==
    LET c == x.n * 100
        q == c \div x.d
        r == c % x.d
        up == \/ 2 * r > x.d
              \/ 2 * r = x.d /\ q % 2 = 1
    IN  Rat(IF up THEN q + 1 ELSE q, 100)

RECURSIVE SumSeq(_)
SumSeq(s) == IF s = <<>> THEN Zero ELSE Add(Head(s), SumSeq(Tail(s)))

RECURSIVE SumMap(_, _)
\* sum(m.values()) over the keys S of the dict m
SumMap(m, S) ==
    IF S = {} THEN Zero
    ELSE LET c == CHOOSE x \in S : TRUE
         IN  Add(m[c], SumMap(m, S \ {c}))

----------------------------------------------------------------------------
(* generate_auto_budget *)

\* variants of AdjFactor: the percentage kept instead of taken off; the division
\* by 100 forgotten
AdjFactorKept(pct) == Rat(pct, 100)
AdjFactorNoDiv(pct) == Int2(100 - pct)

\* the (100 - vacancy_pct) / 100 factor
AdjFactor(pct) == Rat(100 - pct, 100)

\* variant of Safety1: only a zero amount is caught
Safety1OnlyZero(amount) == amount = None \/ amount = Zero

\* Safety 1: check_amount is None or check_amount <= 0
Safety1(amount) == amount = None \/ Le(amount, Zero)

\* variant of Share: the percentage taken of 100 instead of the sum of the weights
ShareOfHundred(amt, pct, total_pct) == Round2(Mul(amt, Div(pct, Int2(100))))

\* round(check_amount * (pct / total_pct), 2)
Share(amt, pct, total_pct) == Round2(Mul(amt, Div(pct, total_pct)))

\* variant of AllocatedCats: categories of weight 0 are left out
AllocatedCatsNonZero(allocations) ==
    {cat \in DOMAIN allocations : allocations[cat] # Zero}

\* for cat, pct in category_allocations.items()
AllocatedCats(allocations) == DOMAIN allocations

generate_auto_budget(amount, allocations, mode, pct) ==
    IF Safety1(amount)
    THEN [cat \in DOMAIN allocations |-> Zero]
    ELSE LET amt       == IF mode THEN Mul(amount, AdjFactor(pct)) ELSE amount
             total_pct == SumMap(allocations, DOMAIN allocations)
         IN  IF Le(total_pct, Zero)
             THEN [cat \in DOMAIN allocations |-> Zero]
             ELSE [cat \in AllocatedCats(allocations) |->
                     Share(amt, allocations[cat], total_pct)]

----------------------------------------------------------------------------
(* Budget frames *)

CheckCols == <<"Check1", "Check2", "Check3", "Check4">>
Checks    == {CheckCols[i] : i \in 1..4}
Columns   == {"Category"} \cup Checks \cup {"Monthly_Total"}

\* pd.to_numeric(x, errors="coerce").fillna(0): NaN and non-numeric become 0
ToNumeric(x) == IF IsNum(x) THEN x ELSE Zero

\* .fillna(0)
FillNa(x) == IF x = NaN THEN Zero ELSE x

\* variant of RowSum: Check4 left out of the total
RowSumThree(row) == SumSeq([i \in 1..3 |-> FillNa(row[CheckCols[i]])])

\* df[["Check1","Check2","Check3","Check4"]].sum(axis=1) of one row (NaN is skipped)
RowSum(row) == SumSeq([i \in 1..4 |-> FillNa(row[CheckCols[i]])])

\* the frame f with its rows replaced by rows and the columns in C added
WithRows(f, C, rows) == [cols |-> f.cols \cup C, rows |-> rows]

\* what a call leaves behind: the returned frame, the frame object it was passed
\* (after the call), whether it raised, whether it returned the object it was passed
Outcome(ret, arg, exc, same) ==
    [ret |-> ret, arg |-> arg, raised |-> exc, same_object |-> same]

ensure_budget_schema(f) ==
    LET \* for c in cols: if c not in df.columns: df[c] = 0.0
        Fill(row) ==
            [c \in Columns |->
               IF c \in f.cols THEN row[c]
               ELSE IF c = "Category" THEN "0.0" ELSE Zero]
        added == WithRows(f, Columns,
                          [i \in 1..Len(f.rows) |-> Fill(f.rows[i])])
        \* a string cell makes the float sum raise TypeError (pandas 2; the columns
        \* added above stay in the frame)
        bad == \E i \in 1..Len(added.rows) : \E c \in Checks :
                   added.rows[i][c] = Str
        Total(row) == [row EXCEPT !["Monthly_Total"] = RowSum(row)]
        done == WithRows(added, {},
                         [i \in 1..Len(added.rows) |-> Total(added.rows[i])])
    IN  IF bad THEN Outcome(added, added, TRUE, FALSE)
        ELSE Outcome(done, done, FALSE, FALSE)     \* df[cols]: a new frame

\* the frame adj_df after the loop and the total, and whether that raised
Discounted(budget_df, pct) ==
    LET adj_factor == AdjFactor(pct)
        Scale(row) ==
            [c \in Columns |->
               IF c \in Checks /\ c \in budget_df.cols
               THEN Mul(ToNumeric(row[c]), adj_factor)
               ELSE row[c]]
        scaled == WithRows(budget_df, {},
                           [i \in 1..Len(budget_df.rows) |-> Scale(budget_df.rows[i])])
        Total(row) == [row EXCEPT !["Monthly_Total"] = RowSum(row)]
        adj_df == WithRows(scaled, {"Monthly_Total"},
                           [i \in 1..Len(scaled.rows) |-> Total(scaled.rows[i])])
    IN  IF ~ (Checks \subseteq budget_df.cols)
        THEN [frame |-> scaled, raised |-> TRUE]       \* KeyError at the sum
        ELSE [frame |-> adj_df, raised |-> FALSE]

\* variant of apply_vacancy_to_budget: the .copy() forgotten
apply_vacancy_to_budget_in_place(budget_df, pct) ==
    LET r == Discounted(budget_df, pct)
    IN  Outcome(r.frame, r.frame, r.raised, TRUE)

\* adj_df = budget_df.copy(): the frame passed in is left as it was
apply_vacancy_to_budget(budget_df, pct) ==
    LET r == Discounted(budget_df, pct)
    IN  Outcome(r.frame, budget_df, r.raised, FALSE)

auto_fill_budget(f, checks, pct_in, mode, pct) ==
    LET cats == {f.rows[i]["Category"] : i \in 1..Len(f.rows)}
        \* {c: float(auto_pct_map.get(c, 0)) for c in cats}: one entry per name
        pct_map == [c \in cats |-> IF c \in DOMAIN pct_in THEN pct_in[c] ELSE Zero]
        total_pct == SumMap(pct_map, cats)
        ZeroRow(row) ==
            [c \in Columns |-> IF c = "Category" THEN row[c] ELSE Zero]
        scale == Div(Int2(100), total_pct)
        scaled_map == [c \in cats |-> Mul(pct_map[c], scale)]
        adj == IF mode THEN AdjFactor(pct) ELSE Int2(1)
        Alloc(row) ==
            LET p == Div(scaled_map[row["Category"]], Int2(100))
                filled == [c \in Columns |->
                             IF c \in Checks
                             THEN LET i == CHOOSE j \in 1..4 : CheckCols[j] = c
                                  IN  Mul(Mul(checks[i], p), adj)
                             ELSE row[c]]
            IN  [filled EXCEPT !["Monthly_Total"] = RowSum(filled)]
        newcols == Checks \cup {"Monthly_Total"}
    IN  IF "Category" \notin f.cols
        THEN Outcome(f, f, TRUE, FALSE)                \* KeyError: 'Category'
        ELSE IF Le(total_pct, Zero)
        THEN LET z == WithRows(f, newcols,
                               [i \in 1..Len(f.rows) |-> ZeroRow(f.rows[i])])
             IN  Outcome(z, z, FALSE, TRUE)            \* return df
        ELSE LET g == WithRows(f, newcols,
                               [i \in 1..Len(f.rows) |-> Alloc(f.rows[i])])
             IN  Outcome(g, g, FALSE, TRUE)            \* return df

----------------------------------------------------------------------------
(* Inputs *)

\* two of the categories of CATEGORIES_DEFAULT / AUTO_PCTS
Cats == {"Tithe", "Food"}

Pcts == {0 - 10, 0, 20, 100, 150}           \* vacancy_pct; the functions take any number

Weights == {Int2(w) : w \in (0 - 1)..MaxWeight}

AllocationMaps == UNION {[S -> Weights] : S \in SUBSET Cats}

EmptyMap == [c \in {} |-> Zero]

Amounts == {None, Int2(0 - 5), Zero, Rat(1, 100), Int2(100), Rat(100001, 100)}

ZeroChecks == [i \in 1..4 |-> Zero]

CheckVectors ==
    { <<Int2(1000), Zero, Zero, Zero>>,
      <<Int2(1200), Int2(800), Zero, Rat(30050, 100)>> }

Row(cat, c1, c2, c3, c4, total) ==
    [c \in Columns |->
       CASE c = "Category" -> cat
         [] c = "Check1" -> c1
         [] c = "Check2" -> c2
         [] c = "Check3" -> c3
         [] c = "Check4" -> c4
         [] OTHER -> total]

Frame(cols, rows) == [cols |-> cols, rows |-> rows]

EmptyFrame == Frame(Columns, <<>>)

\* fresh budget frames: any category sequence, duplicates included, all amounts 0.0
CatSeqs == UNION {[1..n -> Cats] : n \in 0..MaxRows}

FreshFrames ==
    {Frame(Columns, [i \in 1..Len(cs) |-> Row(cs[i], Zero, Zero, Zero, Zero, Zero)]) :
        cs \in CatSeqs}

\* hand-edited frames: every cell a number, missing or non-numeric; the total either
\* the row sum or stale
CellVals == {Int2(100), NaN, Str}

EditedRows ==
    {LET r == Row("Tithe", c[1], c[2], c[3], c[4], Zero)
         v == [i \in 1..4 |-> IF IsNum(c[i]) THEN c[i] ELSE Zero]
     IN  [r EXCEPT !["Monthly_Total"] =
             IF stale THEN Int2(7) ELSE Add(Add(v[1], v[2]), Add(v[3], v[4]))] :
        c \in [1..4 -> CellVals], stale \in BOOLEAN}

EditedFrames == {Frame(Columns, <<r>>) : r \in EditedRows}

\* frames as read from a CSV file that may lack any of the columns
CsvRow(cols) ==
    LET full == Row("Food", Int2(100), NaN, Int2(50), Zero, Int2(7))
    IN  [c \in Columns |->
           IF c \in cols THEN full[c]
           ELSE IF c = "Category" THEN "" ELSE Absent]

CsvFrames ==
    {Frame(cols, [i \in 1..n |-> CsvRow(cols)]) :
        cols \in SUBSET Columns, n \in 0..MaxRows}

----------------------------------------------------------------------------
(* The state machine: one call per step *)

InitCommon ==
    /\ last = "none"
    /\ arg_before = df
    /\ arg_after = df
    /\ same_object = FALSE
    /\ budget = EmptyMap
    /\ raised = FALSE
    /\ steps = 0
    /\ budget_csv = df
    /\ first_csv = df
    /\ dash = [saved |-> FALSE, mode |-> FALSE, pct |-> Zero, adjusted_income |-> Zero]

\* inputs of generate_auto_budget
InitAllocate ==
    /\ stage = "ready"
    /\ df = EmptyFrame
    /\ check_inputs = ZeroChecks
    /\ auto_pct_map = EmptyMap
    /\ check_amount \in Amounts
    /\ category_allocations \in AllocationMaps
    /\ vacancy_mode \in BOOLEAN
    /\ vacancy_pct \in Pcts

\* inputs of auto_fill_budget
InitFill ==
    /\ stage = "ready"
    /\ df \in FreshFrames
    /\ check_inputs \in CheckVectors
    /\ auto_pct_map \in AllocationMaps
    /\ check_amount = None
    /\ category_allocations = EmptyMap
    /\ vacancy_mode \in BOOLEAN
    /\ vacancy_pct \in Pcts

\* inputs of apply_vacancy_to_budget
InitDiscount ==
    /\ stage = "ready"
    /\ df \in EditedFrames
    /\ check_inputs = ZeroChecks
    /\ auto_pct_map = EmptyMap
    /\ check_amount = None
    /\ category_allocations = EmptyMap
    /\ vacancy_mode = TRUE
    /\ vacancy_pct \in Pcts

\* a frame just read from the CSV file, before ensure_budget_schema
InitLoad ==
    /\ stage = "loaded"
    /\ df \in CsvFrames
    /\ check_inputs = CHOOSE v \in CheckVectors : v[2] = Zero
    /\ auto_pct_map = [c \in Cats |-> Int2(1)]
    /\ check_amount = None
    /\ category_allocations = EmptyMap
    /\ vacancy_mode = TRUE
    /\ vacancy_pct = 20

Init ==
    /\ InitAllocate \/ InitFill \/ InitDiscount \/ InitLoad
    /\ InitCommon

CanCall == ~ raised /\ steps < MaxSteps

\* the table calls: the call's result becomes the current frame
TableCall(name, out) ==
    /\ last' = name
    /\ arg_before' = df
    /\ arg_after' = out.arg
    /\ same_object' = out.same_object
    /\ raised' = out.raised
    /\ df' = IF out.raised THEN out.arg ELSE out.ret
    /\ steps' = steps + 1
    /\ UNCHANGED <<inputs, budget, persisted>>

GenerateAutoBudget ==
    /\ CanCall
    /\ budget' = generate_auto_budget(check_amount, category_allocations,
                                      vacancy_mode, vacancy_pct)
    /\ last' = "generate_auto_budget"
    /\ arg_before' = df
    /\ arg_after' = df
    /\ same_object' = FALSE
    /\ raised' = FALSE
    /\ steps' = steps + 1
    /\ UNCHANGED <<inputs, df, stage, persisted>>

\* budget_df = ensure_budget_schema(budget_df), on loading and on reloading
EnsureBudgetSchema ==
    /\ CanCall
    /\ LET out == ensure_budget_schema(df)
       IN  /\ TableCall("ensure_budget_schema", out)
           /\ stage' = IF out.raised THEN stage ELSE "ready"

\* the calls of the main script come after the load: the frame they pass has been
\* through ensure_budget_schema
ApplyVacancyToBudget ==
    /\ CanCall
    /\ stage = "ready"
    /\ TableCall("apply_vacancy_to_budget", apply_vacancy_to_budget(df, vacancy_pct))
    /\ UNCHANGED stage

AutoFillBudget ==
    /\ CanCall
    /\ stage = "ready"
    /\ TableCall("auto_fill_budget",
                 auto_fill_budget(df, check_inputs, auto_pct_map,
                                  vacancy_mode, vacancy_pct))
    /\ UNCHANGED stage

Next ==
    \/ GenerateAutoBudget
    \/ EnsureBudgetSchema
    \/ ApplyVacancyToBudget
    \/ AutoFillBudget

Spec == Init /\ [][Next]_vars

----------------------------------------------------------------------------
(* Vocabulary of the claims *)

TableOps == {"ensure_budget_schema", "apply_vacancy_to_budget", "auto_fill_budget"}

Called(name) == last = name /\ ~ raised

\* the amount a cell stands for: a missing or non-numeric cell counts as 0
Amount(cell) == IF cell.k = "num" THEN cell ELSE Zero

Sum4(row) ==
    Add(Add(Add(Amount(row["Check1"]), Amount(row["Check2"])),
            Amount(row["Check3"])), Amount(row["Check4"]))

Cent == Rat(1, 100)

AbsRat(x) == IF x.n < 0 THEN Rat(0 - x.n, x.d) ELSE x

WeightSum(m) == SumMap(m, DOMAIN m)

PositiveTotal == check_amount # None /\ Lt(Zero, check_amount)

----------------------------------------------------------------------------
(* C1: allocate with vacancy off, on non-negative weights of positive sum  *)
(* and a positive total, returns amounts whose sum is within 0.01 times    *)
(* the number of categories of the total.                                  *)

C1_Case ==
    /\ Called("generate_auto_budget")
    /\ ~ vacancy_mode
    /\ PositiveTotal
    /\ \A c \in DOMAIN category_allocations : Le(Zero, category_allocations[c])
    /\ Lt(Zero, WeightSum(category_allocations))

C1_SumWithinTolerance ==
    C1_Case =>
        Le(AbsRat(Sub(WeightSum(budget), check_amount)),
           Mul(Cent, Int2(Cardinality(DOMAIN category_allocations))))

\* rounding really lost something: the amounts do not add up to the total
C1_Witness ==
    /\ C1_Case
    /\ Cardinality(DOMAIN category_allocations) = 2
    /\ WeightSum(budget) # check_amount

----------------------------------------------------------------------------
(* C4: allocate returns the all-zero mapping over the input's categories,  *)
(* without raising, whenever the total is None or <= 0 or the weights sum  *)
(* to <= 0.                                                                *)

C4_Case ==
    /\ last = "generate_auto_budget"
    /\ \/ ~ PositiveTotal
       \/ Le(WeightSum(category_allocations), Zero)

C4_DegenerateAllZero ==
    C4_Case =>
        /\ ~ raised
        /\ DOMAIN budget = DOMAIN category_allocations
        /\ \A c \in DOMAIN budget : budget[c] = Zero

\* allocate(100, {A: 0, B: 0}) = {A: 0, B: 0}
C4_Witness ==
    /\ C4_Case
    /\ check_amount = Int2(100)
    /\ category_allocations = [c \in Cats |-> Zero]
    /\ budget = [c \in Cats |-> Zero]

----------------------------------------------------------------------------
(* C5: the mapping allocate returns has exactly the keys of the input map, *)
(* for every input.                                                        *)

C5_SameKeySet ==
    last = "generate_auto_budget" =>
        DOMAIN budget = DOMAIN category_allocations

\* a normal allocation in which one category has weight 0 and still appears
C5_Witness ==
    /\ Called("generate_auto_budget")
    /\ PositiveTotal
    /\ DOMAIN category_allocations = Cats
    /\ \E c \in Cats : category_allocations[c] = Zero
    /\ \E c \in Cats : Lt(Zero, budget[c])

----------------------------------------------------------------------------
(* C6: with vacancy enabled the result equals allocate applied to the      *)
(* total scaled by (100 - vacancy_pct)/100, and with vacancy disabled it   *)
(* equals allocate(total, map), for every total, map and vacancy_pct.      *)

Allocate(total, m) == generate_auto_budget(total, m, FALSE, 0)

ScaledTotal ==
    IF check_amount = None THEN None
    ELSE Mul(check_amount, Rat(100 - vacancy_pct, 100))

C6_VacancyIsAllocateOfScaled ==
    last = "generate_auto_budget" =>
        budget = IF vacancy_mode
                 THEN Allocate(ScaledTotal, category_allocations)
                 ELSE Allocate(check_amount, category_allocations)

----------------------------------------------------------------------------
(* Vocabulary of the fill_budget_table claims *)

\* base_categories: the Category column of the frame passed to the call
BaseCategories == [i \in 1..Len(arg_before.rows) |-> arg_before.rows[i]["Category"]]

\* the effective weight of a category: 0 when the map does not have it
EffectiveWeight(cat) ==
    IF cat \in DOMAIN auto_pct_map THEN auto_pct_map[cat] ELSE Zero

\* the sum of the effective weights of base_categories
EffectiveWeightSum ==
    SumSeq([i \in 1..Len(BaseCategories) |-> EffectiveWeight(BaseCategories[i])])

\* deposit d after the vacancy adjustment
AdjustedDeposit(d) ==
    IF vacancy_mode
    THEN Mul(check_inputs[d], Rat(100 - vacancy_pct, 100))
    ELSE check_inputs[d]

\* the sum over all rows of the frame of deposit d's amount
ColumnSum(f, d) == SumSeq([i \in 1..Len(f.rows) |-> Amount(f.rows[i][CheckCols[d]])])

FillCase == Called("auto_fill_budget") /\ Lt(Zero, EffectiveWeightSum)

----------------------------------------------------------------------------
(* C2: fill_budget_table consumes the entire deposit: for each of the 4    *)
(* deposits the amounts of all output rows add up to the deposit after the *)
(* vacancy adjustment, for every base_categories sequence and every map    *)
(* whose effective weights sum to > 0.                                     *)

C2_FillConsumesDeposit ==
    FillCase => \A d \in 1..4 : ColumnSum(df, d) = AdjustedDeposit(d)

----------------------------------------------------------------------------
(* C10: fill_budget_table returns one row per element of base_categories,  *)
(* in that order, duplicates included, and row i's deposit-d amount is the *)
(* adjusted deposit times row i's normalized weight / 100, the normalized  *)
(* weights of all rows summing to exactly 100.                             *)

\* row i's weight normalized so that the weights of all rows sum to 100
NormalizedWeight(i) ==
    Mul(EffectiveWeight(BaseCategories[i]), Div(Int2(100), EffectiveWeightSum))

C10_RowPerOccurrence ==
    FillCase =>
        /\ Len(df.rows) = Len(BaseCategories)
        /\ \A i \in 1..Len(df.rows) :
              /\ df.rows[i]["Category"] = BaseCategories[i]
              /\ \A d \in 1..4 :
                    df.rows[i][CheckCols[d]] =
                        Mul(AdjustedDeposit(d), Div(NormalizedWeight(i), Int2(100)))

----------------------------------------------------------------------------
(* C3: in every table an engine operation returns, after any sequence of   *)
(* them, each row's monthly total is the sum of the row's 4 per-deposit    *)
(* amounts.                                                                *)

C3_TotalIsRowSum ==
    (last \in TableOps /\ ~ raised) =>
        \A i \in 1..Len(df.rows) : df.rows[i]["Monthly_Total"] = Sum4(df.rows[i])

\* a discount applied to a filled table whose rows have non-zero totals
C3_Witness ==
    /\ Called("apply_vacancy_to_budget")
    /\ steps = 2
    /\ Len(df.rows) = 2
    /\ \A i \in 1..Len(df.rows) : Lt(Zero, df.rows[i]["Monthly_Total"])
    /\ \A i \in 1..Len(df.rows) :
          df.rows[i]["Monthly_Total"] # arg_before.rows[i]["Monthly_Total"]

----------------------------------------------------------------------------
(* C7: apply_uniform_discount returns, without raising, a table in which   *)
(* every per-deposit amount is the input amount (0 for a non-numeric or    *)
(* missing cell) times (100 - reduction_pct)/100 and every total is the    *)
(* sum of the row's discounted amounts, for every reduction_pct.           *)

----------------------------------------------------------------------------
(* C8: apply_uniform_discount(t, 0) returns a table numerically identical  *)
(* to t, for every table t.                                                *)

AmountCols == Checks \cup {"Monthly_Total"}

C8_ZeroDiscountIdentity ==
    (Called("apply_vacancy_to_budget") /\ vacancy_pct = 0) =>
        \A i \in 1..Len(arg_before.rows) : \A c \in AmountCols :
            df.rows[i][c] = arg_before.rows[i][c]

(* C8 as amended: apply_uniform_discount(t, 0) returns t with every        *)
(* non-numeric or missing per-deposit cell replaced by 0 and every total   *)
(* replaced by the sum of the row's per-deposit amounts; it is therefore   *)
(* identical to t when t's per-deposit cells are numbers and its totals    *)
(* are its row sums.                                                       *)

WellFormed(f) ==
    \A i \in 1..Len(f.rows) :
        /\ \A c \in Checks : f.rows[i][c].k = "num"
        /\ f.rows[i]["Monthly_Total"] = Sum4(f.rows[i])

C8_ZeroDiscountAmended ==
    (Called("apply_vacancy_to_budget") /\ vacancy_pct = 0) =>
        /\ Len(df.rows) = Len(arg_before.rows)
        /\ \A i \in 1..Len(arg_before.rows) :
              /\ \A c \in Checks : df.rows[i][c] = Amount(arg_before.rows[i][c])
              /\ df.rows[i]["Monthly_Total"] = Sum4(arg_before.rows[i])
        /\ WellFormed(arg_before) =>
              \A i \in 1..Len(arg_before.rows) : \A c \in AmountCols :
                  df.rows[i][c] = arg_before.rows[i][c]

\* a well-formed table with non-zero amounts, discounted by 0%
C8_Witness ==
    /\ Called("apply_vacancy_to_budget")
    /\ vacancy_pct = 0
    /\ WellFormed(arg_before)
    /\ Len(arg_before.rows) > 0
    /\ \A i \in 1..Len(arg_before.rows) : Lt(Zero, df.rows[i]["Monthly_Total"])

----------------------------------------------------------------------------
(* C9: every engine operation leaves every input it was given unchanged:  *)
(* the budget table passed in has the same contents after the call as      *)
(* before.                                                                 *)

EngineOps == {"generate_auto_budget", "auto_fill_budget", "apply_vacancy_to_budget"}

C9_InputsUnchanged ==
    last \in EngineOps => arg_after = arg_before

(* C9 as amended: allocate and apply_uniform_discount return a new output  *)
(* and leave their inputs unchanged; fill_budget_table leaves the          *)
(* allocation map, the deposit vector and the table's categories unchanged *)
(* but writes the per-deposit amounts and totals into the table it was     *)
(* given and returns that same table.                                      *)

C9_PureExceptFill ==
    /\ last \in {"generate_auto_budget", "apply_vacancy_to_budget"} =>
          (arg_after = arg_before /\ ~ same_object)
    /\ Called("auto_fill_budget") =>
          /\ same_object
          /\ arg_after = df
          /\ Len(arg_after.rows) = Len(arg_before.rows)
          /\ \A i \in 1..Len(arg_after.rows) :
                arg_after.rows[i]["Category"] = arg_before.rows[i]["Category"]

C9_Amended == [] C9_PureExceptFill /\ [][inputs' = inputs]_vars

\* a fill that changed the table it was given
C9_Witness ==
    /\ Called("auto_fill_budget")
    /\ arg_after # arg_before
    /\ Len(arg_after.rows) = 2

----------------------------------------------------------------------------
(* The Save Vacancy Settings handler and the budget file *)

DEFAULT_VACANCY_REDUCTION == 20

\* the slider's values used (0 to 100 in steps of 5)
SliderPcts == {0, DEFAULT_VACANCY_REDUCTION, 50, 100}

\* df.to_csv: a number is written as its shortest decimal that reads back as the
\* same float, NaN as an empty field, a string as its text
CsvField(cell) ==
    CASE cell.k = "num" -> [txt |-> "number", n |-> cell.n, d |-> cell.d]
      [] cell.k = "nan" -> [txt |-> "empty", n |-> 0, d |-> 1]
      [] OTHER -> [txt |-> "text", n |-> 0, d |-> 1]

\* pd.read_csv of one field
CsvParse(field) ==
    CASE field.txt = "number" -> Rat(field.n, field.d)
      [] field.txt = "empty" -> NaN
      [] OTHER -> Str

\* save_df(df, path): the file holds the frame's columns and one line per row
save_df(f) ==
    [cols |-> f.cols,
     rows |-> [i \in 1..Len(f.rows) |->
                 [c \in Columns |->
                    IF c = "Category" THEN f.rows[i][c]
                    ELSE IF c \in f.cols THEN CsvField(f.rows[i][c])
                    ELSE CsvField(NaN)]]]

\* load_or_create_csv(path, columns)
load_or_create_csv(file) ==
    [cols |-> file.cols,
     rows |-> [i \in 1..Len(file.rows) |->
                 [c \in Columns |->
                    IF c = "Category" THEN file.rows[i][c]
                    ELSE IF c \in file.cols THEN CsvParse(file.rows[i][c])
                    ELSE Absent]]]

\* the top of a script run: load, ensure_budget_schema, then to_numeric on the
\* amount columns
LoadBudget(file) ==
    LET out == ensure_budget_schema(load_or_create_csv(file))
        Numeric(row) ==
            [c \in Columns |-> IF c = "Category" THEN row[c] ELSE ToNumeric(row[c])]
    IN  [raised |-> out.raised,
         frame  |-> WithRows(out.ret, {},
                             [i \in 1..Len(out.ret.rows) |-> Numeric(out.ret.rows[i])])]

\* budgets the application saved earlier
StoredBudgets ==
    {Frame(Columns,
           [i \in 1..Len(cs) |->
              Row(cs[i], a, Int2(50), Zero, Rat(2550, 100), Add(a, Rat(7550, 100)))]) :
        cs \in CatSeqs, a \in {Int2(100), Int2(1000)}}

InitSave ==
    /\ stage = "ready"
    /\ first_csv \in {save_df(f) : f \in StoredBudgets}
    /\ budget_csv = first_csv
    /\ df = LoadBudget(first_csv).frame
    /\ dash = [saved |-> FALSE, mode |-> FALSE,
               pct |-> Int2(DEFAULT_VACANCY_REDUCTION), adjusted_income |-> Zero]
    /\ check_inputs \in CheckVectors
    /\ auto_pct_map = EmptyMap
    /\ check_amount = None
    /\ category_allocations = EmptyMap
    /\ vacancy_mode = FALSE
    /\ vacancy_pct = DEFAULT_VACANCY_REDUCTION
    /\ last = "none"
    /\ arg_before = df
    /\ arg_after = df
    /\ same_object = FALSE
    /\ budget = EmptyMap
    /\ raised = FALSE
    /\ steps = 0

Untouched == <<stage, check_inputs, auto_pct_map, check_amount, category_allocations,
               same_object, budget, raised>>

\* the user ticks or clears "Enable Vacancy"
ToggleVacancy ==
    /\ vacancy_mode' = ~ vacancy_mode
    /\ UNCHANGED <<Untouched, persisted, vacancy_pct, df, last, arg_before,
                   arg_after, steps>>

\* the user moves the "Vacancy Reduction %" slider
SlideVacancyPct ==
    /\ \E p \in SliderPcts \ {vacancy_pct} : vacancy_pct' = p
    /\ UNCHANGED <<Untouched, persisted, vacancy_mode, df, last, arg_before,
                   arg_after, steps>>

\* the user presses "Save Vacancy Settings": the script run loads the budget file,
\* persists the settings, and writes the budget back, reduced when vacancy is on
SaveVacancySettings ==
    /\ steps < MaxSteps
    /\ LET run       == LoadBudget(budget_csv)
           budget_df == run.frame
           total     == SumSeq(check_inputs)
           adj_income == IF vacancy_mode
                         THEN Mul(total, Rat(100 - vacancy_pct, 100))
                         ELSE total
           out       == apply_vacancy_to_budget(budget_df, vacancy_pct)
       IN  /\ ~ run.raised
           /\ dash' = [saved |-> TRUE, mode |-> vacancy_mode,
                       pct |-> Int2(vacancy_pct), adjusted_income |-> adj_income]
           /\ budget_csv' = IF vacancy_mode THEN save_df(out.ret) ELSE save_df(budget_df)
           /\ df' = budget_df
           /\ arg_before' = budget_df
           /\ arg_after' = IF vacancy_mode THEN out.arg ELSE budget_df
    /\ last' = "save_vacancy_settings"
    /\ steps' = steps + 1
    /\ UNCHANGED <<Untouched, first_csv, vacancy_mode, vacancy_pct>>

NextSave == ToggleVacancy \/ SlideVacancyPct \/ SaveVacancySettings

SpecSave == InitSave /\ [][NextSave]_vars

----------------------------------------------------------------------------
(* C11: a save with vacancy enabled at r% persists the budget reduced by   *)
(* r%, and a save with vacancy disabled keeps the original budgets: after  *)
(* any sequence of Save Vacancy Settings presses, if the last save was     *)
(* made with vacancy disabled, the persisted per-check amounts equal the   *)
(* original amounts the budget had before any reduction was saved.         *)

\* the per-check amounts of a budget file
CheckAmounts(file) ==
    [i \in 1..Len(file.rows) |->
       [c \in Checks |-> Amount(CsvParse(file.rows[i][c]))]]

C11_DisabledSaveKeepsOriginal ==
    (dash.saved /\ ~ dash.mode) => CheckAmounts(budget_csv) = CheckAmounts(first_csv)

====
